---- MODULE Spec2Model ----
(***************************************************************************)
(* A model of src/core.js, the RelativeFormat constructor of              *)
(* intl-relativeformat: the process-wide locale catalog and thresholds,   *)
(* locale resolution, unit validation, unit selection, exact-match        *)
(* relative phrases and the per-instance cache of compiled messages.      *)
(*                                                                         *)
(* JavaScript strings are sequences of one-character strings, so that      *)
(* toLowerCase, split, substring and the regular expressions of the code   *)
(* are computed and not assumed.  JavaScript values that may be undefined  *)
(* are tagged records: Undef, Str(s), Arr(a), Obj.                         *)
(***************************************************************************)
EXTENDS Integers, Sequences, FiniteSets, TLC

VARIABLES
    availableLocales,   \* RelativeFormat.__availableLocales__ : array of keys
    localeData,         \* RelativeFormat.__localeData__ : key -> data record
    defaultLocale,      \* RelativeFormat.defaultLocale
    thresholds,         \* RelativeFormat.thresholds : unit -> number
    inst,               \* the RelativeFormat instance under observation
    call                \* the last call made: its arguments and its outcome

vars == <<availableLocales, localeData, defaultLocale, thresholds, inst, call>>

----------------------------------------------------------------------------
(* Bounds *)

\* registrations made in one run (the catalog only grows)
MaxRegistrations == 2
\* tags in one requested-locales list
MaxLocales == 2
\* a threshold the host application sets in place of a default one; it is
\* above every default threshold
AltThreshold == 60

----------------------------------------------------------------------------
(* Values *)

Undef == [t |-> "undefined"]
Str(s) == [t |-> "string", s |-> s]
Arr(a) == [t |-> "array", a |-> a]

\* JavaScript truthiness of a value that is undefined, a string or an object
Truthy(v) == IF v.t = "undefined" THEN FALSE
             ELSE IF v.t = "string" THEN v.s # <<>>
             ELSE TRUE

Abs(n) == IF n < 0 THEN -n ELSE n

----------------------------------------------------------------------------
(* Strings *)

LowerLetters == <<"a","b","c","d","e","f","g","h","i","j","k","l","m",
                  "n","o","p","q","r","s","t","u","v","w","x","y","z">>
UpperLetters == <<"A","B","C","D","E","F","G","H","I","J","K","L","M",
                  "N","O","P","Q","R","S","T","U","V","W","X","Y","Z">>

IsLowerLetter(c) == \E i \in 1..Len(LowerLetters) : LowerLetters[i] = c

LowerChar(c) ==
    IF \E i \in 1..Len(UpperLetters) : UpperLetters[i] = c
    THEN LowerLetters[CHOOSE i \in 1..Len(UpperLetters) : UpperLetters[i] = c]
    ELSE c

\* String.prototype.toLowerCase
toLowerCase(s) == [i \in 1..Len(s) |-> LowerChar(s[i])]

\* s.split('-')[0]: the text before the first hyphen, all of s without one
SplitFirst(s) ==
    IF \E i \in 1..Len(s) : s[i] = "-"
    THEN SubSeq(s, 1, (CHOOSE i \in 1..Len(s) :
                          /\ s[i] = "-"
                          /\ \A j \in 1..(i - 1) : s[j] # "-") - 1)
    ELSE s

\* /[a-z]{2,3}/.test(s): the pattern is not anchored, so it asks for two
\* adjacent lower-case letters anywhere in s
TestLocalePattern(s) ==
    \E i \in 1..(Len(s) - 1) : IsLowerLetter(s[i]) /\ IsLowerLetter(s[i + 1])

\* /s$/.test(s)
TestTrailingS(s) == Len(s) > 0 /\ s[Len(s)] = "s"

\* array.indexOf(x) >= 0
Includes(array, x) == \E i \in 1..Len(array) : array[i] = x

----------------------------------------------------------------------------
(* Units *)

second == <<"s","e","c","o","n","d">>
minute == <<"m","i","n","u","t","e">>
hour   == <<"h","o","u","r">>
day    == <<"d","a","y">>
month  == <<"m","o","n","t","h">>
year   == <<"y","e","a","r">>

PRIORITY == <<second, minute, hour, day, month, year>>

Units == {PRIORITY[i] : i \in 1..Len(PRIORITY)}

\* A unit's position in PRIORITY
UnitIndex(u) == CHOOSE i \in 1..Len(PRIORITY) : PRIORITY[i] = u

----------------------------------------------------------------------------
(* RelativeFormat.__addLocaleData *)

\* data && data.locale
HasLocale(data) == Truthy(data) /\ Truthy(data.locale)

\* data.fields
HasFields(data) == Truthy(data.fields)

\* data.locale.toLowerCase().split('-')[0]
RegisteredKey(data) == SplitFirst(toLowerCase(data.locale.s))

Throw(error, detail) == [kind |-> "throw", error |-> error, detail |-> detail]
Return(value) == [kind |-> "return", value |-> value]

\* A registration that keeps the record a key already has
AddLocaleDataKeepingFirst(data, mfAccepts) ==
    IF ~HasLocale(data)
    THEN [out |-> Throw("InvalidLocaleData", <<"locale">>),
          available |-> availableLocales, data |-> localeData]
    ELSE IF ~HasFields(data)
    THEN [out |-> Throw("InvalidLocaleData", <<"fields">>),
          available |-> availableLocales, data |-> localeData]
    ELSE IF ~mfAccepts
    THEN [out |-> Throw("IntlMessageFormat", <<>>),
          available |-> availableLocales, data |-> localeData]
    ELSE LET locale == RegisteredKey(data)
         IN  [out |-> Return(Undef),
              available |-> Append(availableLocales, locale),
              data |-> localeData @@ (locale :> data)]

\* The outcome of __addLocaleData(data) and the catalog it leaves behind.
\* mfAccepts is the verdict of IntlMessageFormat.__addLocaleData, a
\* collaborator outside this file that may reject the record by throwing.
AddLocaleDataResult(data, mfAccepts) ==
    IF ~HasLocale(data)
    THEN [out |-> Throw("InvalidLocaleData", <<"locale">>),
          available |-> availableLocales, data |-> localeData]
    ELSE IF ~HasFields(data)
    THEN [out |-> Throw("InvalidLocaleData", <<"fields">>),
          available |-> availableLocales, data |-> localeData]
    ELSE IF ~mfAccepts
    THEN [out |-> Throw("IntlMessageFormat", <<>>),
          available |-> availableLocales, data |-> localeData]
    ELSE LET locale == RegisteredKey(data)
         IN  [out |-> Return(Undef),
              available |-> Append(availableLocales, locale),
              data |-> (locale :> data) @@ localeData]

__addLocaleData(data, mfAccepts) ==
    /\ Len(availableLocales) < MaxRegistrations
    /\ LET r == AddLocaleDataResult(data, mfAccepts)
       IN  /\ availableLocales' = r.available
           /\ localeData' = r.data
           /\ call' = [op |-> "__addLocaleData", data |-> data, out |-> r.out]
    /\ UNCHANGED <<defaultLocale, thresholds, inst>>

\* RelativeFormat.defaultLocale = tag
SetDefaultLocale(tag) ==
    /\ defaultLocale' = tag
    /\ call' = [op |-> "defaultLocale", value |-> tag]
    /\ UNCHANGED <<availableLocales, localeData, thresholds, inst>>

----------------------------------------------------------------------------
(* RelativeFormat.prototype._resolveLocale *)

\* locales[i].split('-')[0].toLowerCase()
RequestedKey(tag) == toLowerCase(SplitFirst(tag))

\* The for loop from index i on: the first tag that fails the pattern test
\* throws at once; the first registered key returns; the end of the list
\* throws.
RECURSIVE ScanLocales(_, _)
ScanLocales(list, i) ==
    IF i > Len(list)
    THEN Throw("UnsupportedLocale", list)
    ELSE LET locale == RequestedKey(list[i])
         IN  IF ~TestLocalePattern(locale)
             THEN Throw("MalformedLocaleTag", locale)
             ELSE IF Includes(availableLocales, locale)
             THEN Return(locale)
             ELSE ScanLocales(list, i + 1)

_resolveLocale(locales) ==
    LET l1 == IF ~Truthy(locales) THEN defaultLocale ELSE locales
        l2 == IF l1.t = "string" THEN Arr(<<l1.s>>) ELSE l1
    IN  IF l2.t = "undefined"
        THEN Throw("TypeError", <<>>)      \* undefined.length
        ELSE ScanLocales(l2.a, 1)

----------------------------------------------------------------------------
(* RelativeFormat.prototype._isValidUnits *)

_isValidUnits(units) ==
    IF Includes(PRIORITY, units)
    THEN Return(TRUE)
    ELSE LET suggestion == IF TestTrailingS(units)
                           THEN Str(SubSeq(units, 1, Len(units) - 1))
                           ELSE Undef      \* false
         IN  IF Truthy(suggestion) /\ Includes(PRIORITY, suggestion.s)
             THEN Throw("InvalidUnit", [didYouMean |-> suggestion.s])
             ELSE Throw("InvalidUnit", [mustBeOneOf |-> PRIORITY])

----------------------------------------------------------------------------
(* new RelativeFormat(locales, options) *)

NoMessages == [u \in {} |-> Undef]

\* The outcome of the constructor: the locale is resolved first, the units
\* option is validated only when it is truthy.
ConstructResult(locales, units) ==
    LET r == _resolveLocale(locales)
    IN  IF r.kind = "throw" THEN r
        ELSE IF ~Truthy(units)
        THEN Return([t |-> "object", _locale |-> r.value, _units |-> Undef,
                     _messages |-> NoMessages])
        ELSE LET v == _isValidUnits(units.s)
             IN  IF v.kind = "throw" THEN v
                 ELSE Return([t |-> "object", _locale |-> r.value,
                              _units |-> units, _messages |-> NoMessages])

RelativeFormat(locales, units) ==
    /\ LET r == ConstructResult(locales, units)
       IN  /\ inst' = IF r.kind = "return" THEN r.value ELSE inst
           /\ call' = [op |-> "new", locales |-> locales, units |-> units,
                       out |-> r]
    /\ UNCHANGED <<availableLocales, localeData, defaultLocale, thresholds>>

\* inst.resolvedOptions()
resolvedOptions == [locale |-> inst._locale, units |-> inst._units]

----------------------------------------------------------------------------
(* RelativeFormat.thresholds *)

\* The table as the file defines it: no entry for year
DefaultThresholds ==
    (second :> 45) @@ (minute :> 45) @@ (hour :> 22) @@ (day :> 26) @@
    (month :> 11)

\* RelativeFormat.thresholds[unit] = value, done by the host application
SetThreshold(unit, value) ==
    /\ thresholds' = (unit :> value) @@ thresholds
    /\ call' = [op |-> "thresholds", unit |-> unit, value |-> value]
    /\ UNCHANGED <<availableLocales, localeData, defaultLocale, inst>>

----------------------------------------------------------------------------
(* RelativeFormat.prototype._selectUnits *)

\* A comparison that lets a magnitude equal to the threshold through
AtOrBelowThreshold(diffReport, units) ==
    /\ units \in DOMAIN thresholds
    /\ Abs(diffReport[units]) <= thresholds[units]

\* Math.abs(diffReport[units]) < RelativeFormat.thresholds[units]; a
\* comparison with an undefined threshold is false
BelowThreshold(diffReport, units) ==
    /\ units \in DOMAIN thresholds
    /\ Abs(diffReport[units]) < thresholds[units]

\* The for loop from index i on; when it runs off the end, units still holds
\* the last element of PRIORITY
RECURSIVE SelectFrom(_, _)
SelectFrom(diffReport, i) ==
    IF i > Len(PRIORITY) THEN PRIORITY[Len(PRIORITY)]
    ELSE IF BelowThreshold(diffReport, PRIORITY[i]) THEN PRIORITY[i]
    ELSE SelectFrom(diffReport, i + 1)

_selectUnits(diffReport) == SelectFrom(diffReport, 1)

----------------------------------------------------------------------------
(* RelativeFormat.prototype._resolveRelativeUnits *)

\* RelativeFormat.__localeData__[this._locale].fields[units]
Field(units) == localeData[inst._locale].fields.of[units]

_resolveRelativeUnits(diff, units) ==
    LET field == Field(units)
    IN  IF Truthy(field.relative)
        THEN IF diff \in DOMAIN field.relative.of
             THEN Str(field.relative.of[diff])
             ELSE Undef
        ELSE Undef

----------------------------------------------------------------------------
(* RelativeFormat.prototype._resolveMessage *)

\* Message text is a sequence of pieces; the placeholder {0} is one piece.
\* template.replace('{0}', '#'): the first occurrence only
ReplacePlaceholder(template) ==
    IF \E i \in 1..Len(template) : template[i] = "{0}"
    THEN LET i == CHOOSE k \in 1..Len(template) :
                      /\ template[k] = "{0}"
                      /\ \A j \in 1..(k - 1) : template[j] # "{0}"
         IN  [k \in 1..Len(template) |-> IF k = i THEN "#" ELSE template[k]]
    ELSE template

\* One for-in loop: entries is the mapping in enumeration order, as pairs
\* <<plural category, template>>
RECURSIVE PluralBranches(_, _)
PluralBranches(entries, i) ==
    IF i > Len(entries) THEN <<>>
    ELSE <<" ", entries[i][1], " {">> \o ReplacePlaceholder(entries[i][2])
         \o <<"}">> \o PluralBranches(entries, i + 1)

SyntheticMessage(relativeTime) ==
    <<"{when, select, future {{0, plural, ">>
    \o PluralBranches(relativeTime.future, 1) \o <<"}}">>
    \o <<"past {{0, plural, ">>
    \o PluralBranches(relativeTime.past, 1) \o <<"}}}">>

\* new IntlMessageFormat(message, locale): the compiled message is opaque,
\* known by the pattern and locale it was compiled from
IntlMessageFormat(message, locale) ==
    [t |-> "object", pattern |-> message, locale |-> locale]

\* A resolution that compiles the message anew on every call
_resolveMessageAnew(units) ==
    (units :> IntlMessageFormat(SyntheticMessage(Field(units).relativeTime),
                                inst._locale)) @@ inst._messages

\* The cache this._messages after _resolveMessage(units); the message the
\* call returns is this cache's entry for units
_resolveMessage(units) ==
    IF units \notin DOMAIN inst._messages
    THEN (units :> IntlMessageFormat(
                       SyntheticMessage(Field(units).relativeTime),
                       inst._locale)) @@ inst._messages
    ELSE inst._messages

----------------------------------------------------------------------------
(* RelativeFormat.prototype._format *)

NaN == [t |-> "NaN"]
Num(n) == [t |-> "number", n |-> n]

\* new Date(date).getTime(): a number for a real instant, NaN otherwise
GetTime(date) == IF date.t = "number" THEN date ELSE NaN

\* A check of the Date object alone, which is always truthy
DateObjectCheck(date) == TRUE

\* date && date.getTime(): a Date object is truthy; NaN and 0 are falsy
DateCheck(date) == GetTime(date).t = "number" /\ GetTime(date).n # 0

\* The outcome of _format(date) and the message cache it leaves behind.
\* diffReport is what the diff collaborator returns for (now, date).
FormatResult(date, diffReport) ==
    IF ~DateCheck(date)
    THEN [out |-> Throw("InvalidDate", <<>>), messages |-> inst._messages,
          units |-> Undef]
    ELSE LET units == IF Truthy(inst._units) THEN inst._units.s
                      ELSE _selectUnits(diffReport)
             diffInUnits == diffReport[units]
             relativeUnits == _resolveRelativeUnits(diffInUnits, units)
         IN  IF Truthy(relativeUnits)
             THEN [out |-> Return(relativeUnits),
                   messages |-> inst._messages, units |-> Str(units)]
             ELSE LET messages == _resolveMessage(units)
                  IN  [out |-> Return([t |-> "formatted",
                                       msg |-> messages[units],
                                       n |-> Abs(diffInUnits),
                                       when |-> IF diffInUnits < 0
                                                THEN "past" ELSE "future"]),
                       messages |-> messages, units |-> Str(units)]

_format(date, diffReport) ==
    /\ Truthy(inst)
    /\ LET r == FormatResult(date, diffReport)
       IN  /\ inst' = [inst EXCEPT !._messages = r.messages]
           /\ call' = [op |-> "format", date |-> date,
                       diffReport |-> diffReport, units |-> r.units,
                       out |-> r.out]
    /\ UNCHANGED <<availableLocales, localeData, defaultLocale, thresholds>>

----------------------------------------------------------------------------
(* Inputs: locale tags, locale data records, requested lists, instants *)

en_US == <<"e","n","-","U","S">>
EN    == <<"E","N">>
xx_YY == <<"x","x","-","Y","Y">>
x_YY  == <<"x","-","Y","Y">>        \* a one-letter root
engl  == <<"e","n","g","l">>        \* a four-letter root

en == <<"e","n">>

\* CLDR-style field data: numbered phrases for every unit, exact phrases
\* for day and second
EnField(u) ==
    [relative |->
        IF u = day
        THEN [t |-> "object",
              of |-> (-1 :> <<"yesterday">>) @@ (0 :> <<"today">>) @@
                     (1 :> <<"tomorrow">>)]
        ELSE IF u = second
        THEN [t |-> "object", of |-> (0 :> <<"now">>)]
        ELSE Undef,
     relativeTime |->
        [future |-> << <<"one", <<"in ", "{0}", " ">> \o u>>,
                       <<"other", <<"in ", "{0}", " ">> \o u \o <<"s">> >> >>,
         past   |-> << <<"one", <<"{0}", " ">> \o u \o <<" ago">> >>,
                       <<"other", <<"{0}", " ">> \o u \o <<"s ago">> >> >>]]

EnFields == [t |-> "object", of |-> [u \in Units |-> EnField(u)]]

\* Another record for the same language: terse wording, one plural
\* category, a different exact phrase for day 0 and an exact phrase for
\* second 0 that is the empty string
AltField(u) ==
    [relative |->
        IF u = day
        THEN [t |-> "object", of |-> (0 :> <<"this day">>)]
        ELSE IF u = second
        THEN [t |-> "object", of |-> (0 :> <<>>)]
        ELSE Undef,
     relativeTime |->
        [future |-> << <<"other", <<"+", "{0}", " ">> \o u>> >>,
         past   |-> << <<"other", <<"-", "{0}", " ">> \o u>> >>]]

AltFields == [t |-> "object", of |-> [u \in Units |-> AltField(u)]]

Data(locale, fields) == [t |-> "object", locale |-> locale, fields |-> fields]

\* Records __addLocaleData rejects: no record, no locale, an empty locale,
\* no fields
BadData ==
    {Undef, Data(Undef, EnFields), Data(Str(<<>>), EnFields),
     Data(Str(en_US), Undef)}

\* All lists of at most n tags drawn from S
RECURSIVE ListsUpTo(_, _)
ListsUpTo(S, n) ==
    IF n = 0 THEN {<<>>}
    ELSE LET shorter == ListsUpTo(S, n - 1)
         IN  shorter \cup {Append(l, x) : l \in shorter, x \in S}

\* The diff collaborator's report whose first k - 1 units are at magnitude
\* hi, whose k-th unit is at magnitude m and whose later units are 0, all
\* with sign s
Report(k, s, m, hi) ==
    [u \in Units |-> IF UnitIndex(u) < k THEN s * hi
                     ELSE IF UnitIndex(u) = k THEN s * m
                     ELSE 0]

----------------------------------------------------------------------------
(* The formatter and its message cache *)

Init ==
    /\ availableLocales = <<>>
    /\ localeData = [k \in {} |-> Undef]
    /\ defaultLocale = Undef
    /\ thresholds = DefaultThresholds
    /\ inst = Undef
    /\ call = [op |-> "load"]

RegisterInputs == {Data(Str(en_US), EnFields), Data(Str(EN), AltFields)}
                  \cup BadData

UnitsInputs ==
    {Undef, Str(<<>>), Str(day), Str(second), Str(day \o <<"s">>),
     Str(<<"s">>), Str(<<"w","e","e","k">>), Str(<<"w","e","e","k","s">>)}

DateInputs == {Undef, Num(0), Num(-1), Num(1000)}

\* second 0 and day -1, 0, 1, 3 in the lead, in both directions
FormatDiffs ==
    {Report(1, 1, 0, 0), Report(1, -1, 30, 0),
     Report(4, -1, 1, AltThreshold), Report(4, 1, 0, AltThreshold),
     Report(4, 1, 1, AltThreshold), Report(4, -1, 3, AltThreshold)}

Register == \E data \in RegisterInputs, mfAccepts \in BOOLEAN :
                __addLocaleData(data, mfAccepts)

Construct == \E locales \in {Str(en_US)}, units \in UnitsInputs :
                 RelativeFormat(locales, units)

Format == \E date \in DateInputs, diffReport \in FormatDiffs :
              _format(date, diffReport)

Retune == \E value \in {AltThreshold} : SetThreshold(second, value)

Next == Register \/ Construct \/ Format \/ Retune

Spec == Init /\ [][Next]_vars

----------------------------------------------------------------------------
(* Locale registration and resolution *)

LocaleRegisterInputs ==
    {Data(Str(tag), EnFields) : tag \in {en_US, x_YY, engl}}
    \cup {Data(Str(EN), AltFields)} \cup BadData

\* No argument, a lone tag, every list of en-US, x-YY and engl up to the
\* bound, and a list that leads with a well-formed tag nobody registers
LocalesInputs ==
    {Undef, Str(en_US), Arr(<<xx_YY, en_US>>)}
    \cup {Arr(l) : l \in ListsUpTo({en_US, x_YY, engl}, MaxLocales)}

RegisterLocale == \E data \in LocaleRegisterInputs, mfAccepts \in BOOLEAN :
                      __addLocaleData(data, mfAccepts)

ConstructLocale == \E locales \in LocalesInputs :
                       RelativeFormat(locales, Undef)

ChooseDefault == SetDefaultLocale(Str(en_US))

NextLocale == RegisterLocale \/ ConstructLocale \/ ChooseDefault

SpecLocale == Init /\ [][NextLocale]_vars

----------------------------------------------------------------------------
(* Unit selection under changing thresholds *)

\* For each unit in the lead: the default threshold and the magnitude just
\* below it, the alternative threshold and the magnitude just below it
SelectMagnitudes(k) ==
    IF PRIORITY[k] \in DOMAIN DefaultThresholds
    THEN {DefaultThresholds[PRIORITY[k]] - 1, DefaultThresholds[PRIORITY[k]],
          AltThreshold - 1, AltThreshold}
    ELSE {0, AltThreshold}

SelectDiffs ==
    UNION {{Report(k, s, m, AltThreshold) :
               s \in {-1, 1}, m \in SelectMagnitudes(k)} :
           k \in 1..Len(PRIORITY)}

RegisterEn == \E data \in {Data(Str(en_US), EnFields)} :
                  __addLocaleData(data, TRUE)

ConstructEn == RelativeFormat(Str(en_US), Undef)

FormatSelect == \E diffReport \in SelectDiffs :
                    _format(Num(1000), diffReport)

RetuneSelect == \E unit \in {second, day} : SetThreshold(unit, AltThreshold)

NextSelect == RegisterEn \/ ConstructEn \/ FormatSelect \/ RetuneSelect

SpecSelect == Init /\ [][NextSelect]_vars

----------------------------------------------------------------------------
(* Properties *)

Range(f) == {f[i] : i \in DOMAIN f}

\* A locale key as the data model describes it: two or three lower-case
\* letters and nothing else
WellFormedKey(k) ==
    /\ Len(k) \in {2, 3}
    /\ \A i \in 1..Len(k) : IsLowerLetter(k[i])

\* The tags a constructor call names itself, in order
NamedTags(locales) ==
    IF locales.t = "array" THEN locales.a
    ELSE IF Truthy(locales) THEN <<locales.s>>
    ELSE <<>>

\* Tag i of the list is well formed and registered
Supported(list, i) ==
    /\ WellFormedKey(RequestedKey(list[i]))
    /\ RequestedKey(list[i]) \in Range(availableLocales)

\* C1: a constructor call whose list holds a well-formed, registered tag
\* succeeds with the key of the first such tag, whatever precedes it.
C1_FirstSupportedTagWins ==
    (call.op = "new" /\ \E i \in 1..Len(NamedTags(call.locales)) :
                            Supported(NamedTags(call.locales), i))
    => LET list == NamedTags(call.locales)
           first == CHOOSE i \in 1..Len(list) :
                        /\ Supported(list, i)
                        /\ \A j \in 1..(i - 1) : ~Supported(list, j)
       IN  /\ call.out.kind = "return"
           /\ call.out.value._locale = RequestedKey(list[first])

\* A unit qualifies when the magnitude of its diff is strictly below its
\* threshold in the table as it stands
Qualifies(diffReport, u) ==
    /\ u \in DOMAIN thresholds
    /\ Abs(diffReport[u]) < thresholds[u]

FirstQualifying(diffReport) ==
    IF \E u \in Units : Qualifies(diffReport, u)
    THEN CHOOSE u \in Units :
             /\ Qualifies(diffReport, u)
             /\ \A v \in Units : Qualifies(diffReport, v)
                                 => UnitIndex(u) <= UnitIndex(v)
    ELSE year

\* C2: a format call on an instance with no pinned unit uses the first unit,
\* in priority order, whose magnitude is strictly below its threshold at the
\* time of the call, and year when there is none; a unit whose magnitude
\* equals its threshold is not the one used.
C2_SelectsFirstUnitBelowThreshold ==
    (call.op = "format" /\ call.out.kind = "return" /\ ~Truthy(inst._units))
    => /\ call.units.s = FirstQualifying(call.diffReport)
       /\ \A u \in DOMAIN thresholds :
              Abs(call.diffReport[u]) = thresholds[u] => call.units.s # u

\* C2 witness: with the thresholds for second and day raised, a report that
\* sits exactly on the raised threshold for second and between the default
\* and the raised threshold for day has been formatted in days.
C2_Witness ==
    /\ call.op = "format" /\ call.out.kind = "return"
    /\ ~Truthy(inst._units)
    /\ thresholds[second] = AltThreshold /\ thresholds[day] = AltThreshold
    /\ Abs(call.diffReport[second]) = thresholds[second]
    /\ Abs(call.diffReport[day]) = DefaultThresholds[day]
    /\ call.units.s = day

\* The exact phrase the registered field data defines for a unit and a
\* signed count, if any
ExactPhraseDefined(u, n) ==
    /\ Truthy(Field(u).relative)
    /\ n \in DOMAIN Field(u).relative.of

\* C3: a format call for which the field data defines an exact phrase for
\* the signed count of the unit in use returns that phrase verbatim and
\* leaves the instance's message cache as it was.
C3_ExactPhraseWins ==
    [][(/\ call'.op = "format"
        /\ call'.units # Undef
        /\ ExactPhraseDefined(call'.units.s,
                              call'.diffReport[call'.units.s]))
       => /\ call'.out = Return(Str(Field(call'.units.s).relative.of[
                                        call'.diffReport[call'.units.s]]))
          /\ inst'._messages = inst._messages]_vars

\* C4: a constructor call that gets past locale resolution with a units
\* option supplied accepts and pins one of the six units, rejects a unit
\* with a trailing "s" naming the singular, and rejects anything else
\* listing the six units.
C4_EverySuppliedUnitIsValidated ==
    (/\ call.op = "new"
     /\ _resolveLocale(call.locales).kind = "return"
     /\ call.units # Undef)
    => LET units == call.units.s
       IN  IF units \in Units
           THEN /\ call.out.kind = "return"
                /\ call.out.value._units = call.units
           ELSE IF /\ Len(units) > 0
                   /\ units[Len(units)] = "s"
                   /\ SubSeq(units, 1, Len(units) - 1) \in Units
           THEN call.out = Throw("InvalidUnit",
                    [didYouMean |-> SubSeq(units, 1, Len(units) - 1)])
           ELSE call.out = Throw("InvalidUnit", [mustBeOneOf |-> PRIORITY])

\* The input of a format call resolves to a real instant
RealInstant(date) == date.t = "number"

\* C5: format raises InvalidDate exactly for the inputs that do not resolve
\* to a real instant; every real instant, whatever its timestamp, is
\* formatted.
C5_EveryRealInstantIsFormatted ==
    call.op = "format"
    => (call.out.kind = "throw" <=> ~RealInstant(call.date))

\* C6: a format call whose input is not a real instant fails with
\* InvalidDate and changes neither the instance (locale, pinned unit,
\* message cache) nor the catalog nor the thresholds.
C6_InvalidDateChangesNothing ==
    [][(call'.op = "format" /\ ~RealInstant(call'.date))
       => /\ call'.out = Throw("InvalidDate", <<>>)
          /\ inst' = inst
          /\ availableLocales' = availableLocales
          /\ localeData' = localeData
          /\ thresholds' = thresholds]_vars

\* C6 witness: a format call with an invalid date has failed on an instance
\* whose cache already holds a compiled message.
C6_Witness ==
    /\ call.op = "format" /\ ~RealInstant(call.date)
    /\ call.out.kind = "throw"
    /\ DOMAIN inst._messages # {}

\* C7: a register call that succeeds stores its record, whole, under the
\* lower-cased first segment of its tag and leaves every other key as it
\* was, so a lookup returns the latest record registered for the key; a
\* register call whose record lacks a tag or field data fails with
\* InvalidLocaleData and changes neither the list of available locales nor
\* the stored data.
C7_LastRegistrationWins ==
    [][(call'.op = "__addLocaleData")
       => /\ call'.out.kind = "return"
             => LET key == RequestedKey(call'.data.locale.s)
                IN  /\ DOMAIN localeData' = DOMAIN localeData \cup {key}
                    /\ localeData'[key] = call'.data
                    /\ \A k \in DOMAIN localeData :
                           k # key => localeData'[k] = localeData[k]
                    /\ availableLocales' = Append(availableLocales, key)
          /\ (~HasLocale(call'.data) \/ ~HasFields(call'.data))
             => /\ call'.out.kind = "throw"
                /\ call'.out.error = "InvalidLocaleData"
                /\ availableLocales' = availableLocales
                /\ localeData' = localeData]_vars

\* C7 witness: a key has been registered twice, from two different records,
\* and the stored record is the one of the last call.
C7_Witness ==
    /\ call.op = "__addLocaleData" /\ call.out.kind = "return"
    /\ Len(availableLocales) >= 2
    /\ availableLocales[Len(availableLocales)]
           = availableLocales[Len(availableLocales) - 1]
    /\ localeData[en] = Data(Str(EN), AltFields)

\* C8: a constructor call given no tags, or an empty list, resolves as a
\* call given only the default tag does.
C8_EmptyListFallsBackToDefault ==
    (/\ call.op = "new"
     /\ call.locales \in {Undef, Arr(<<>>)}
     /\ defaultLocale.t = "string")
    => LET expected == ConstructResult(Arr(<<defaultLocale.s>>), call.units)
       IN  /\ call.out.kind = expected.kind
           /\ call.out.kind = "return" => call.out.value = expected.value
           /\ call.out.kind = "throw" => call.out.error = expected.error

\* The compiled message the catalog's field data yields for a unit now
CompiledNow(u) ==
    IntlMessageFormat(SyntheticMessage(Field(u).relativeTime), inst._locale)

\* C9: while an instance lives, a unit's cached message never changes; a
\* unit enters the cache only in a format call, compiled from the field
\* data registered at that moment; and a pluralized format call evaluates
\* the cached message of its unit.
C9_CompiledOncePerUnit ==
    [][~(call'.op = "new" /\ call'.out.kind = "return") /\ Truthy(inst)
       => /\ \A u \in DOMAIN inst._messages :
                /\ u \in DOMAIN inst'._messages
                /\ inst'._messages[u] = inst._messages[u]
          /\ \A u \in DOMAIN inst'._messages \ DOMAIN inst._messages :
                /\ call'.op = "format"
                /\ call'.units = Str(u)
                /\ inst'._messages[u] = CompiledNow(u)
          /\ (call'.op = "format" /\ call'.out.kind = "return"
              /\ call'.out.value.t = "formatted")
             => call'.out.value.msg = inst'._messages[call'.units.s]]_vars

\* C9 witness: a pluralized format call has used a cached message that is
\* no longer what the re-registered field data would compile to.
C9_Witness ==
    /\ call.op = "format" /\ call.out.kind = "return"
    /\ call.out.value.t = "formatted"
    /\ call.out.value.msg = inst._messages[call.units.s]
    /\ call.out.value.msg # CompiledNow(call.units.s)

\* C10: the key of a constructed instance is the lower-cased first segment
\* of a requested tag and is two or three letters long.
C10_ResolvedKeyIsWellFormed ==
    (call.op = "new" /\ call.out.kind = "return")
    => /\ resolvedOptions.locale = call.out.value._locale
       /\ WellFormedKey(resolvedOptions.locale)
       /\ \E tag \in Range(NamedTags(call.locales))
                     \cup (IF defaultLocale.t = "string"
                           THEN {defaultLocale.s} ELSE {}) :
              RequestedKey(tag) = resolvedOptions.locale

====
